---------------------------- MODULE Spec2Model ----------------------------
(***************************************************************************)
(* The event-relay pipeline of cloud-native-platform: the student-service  *)
(* publishes MessageEvents keyed by the sender's email, the project-       *)
(* service's Kafka consumer group (src/unnamed/part_006) decodes them and  *)
(* stores them through message.Repository.                                 *)
(*                                                                         *)
(* Offsets are Kafka's: the first message of a partition has offset 0, a   *)
(* marked or committed offset is the offset of the NEXT message to read.   *)
(***************************************************************************)
EXTENDS Integers, Sequences, FiniteSets, TLC

(* ------------------------------ bounds -------------------------------- *)
NumMembers == 2
NumPartitions == 2
MaxPublish == 2
MaxFaults == 1
MaxRequests == 3
NumShutdown == 1
MaxStudents == 2
MaxStudentRequests == 3

Members == 1..NumMembers
ShutdownMembers == 1..NumShutdown
Partitions == 0..(NumPartitions - 1)
Keys == {"a@x.com", "b@x.com"}
Bodies == {"hello"}

NoOffset == -1

(* --------------------------- wire format ------------------------------ *)
\* message.MessageEvent{Email, Message} as json.Marshal writes it: an object
\* with the two fields.
Marshal(event) == <<"{", event.Email, event.Message, "}">>

\* A payload that is not JSON at all ("invalid json" in the tests).
Garbage == <<"invalid json">>

ZeroEvent == [Email |-> "", Message |-> ""]

\* A decoder that reports no error: garbage decodes to the zero event.
Unmarshal_NoError(value) ==
    IF Len(value) = 4 /\ value[1] = "{" /\ value[4] = "}"
    THEN [err |-> FALSE, event |-> [Email |-> value[2], Message |-> value[3]]]
    ELSE [err |-> FALSE, event |-> ZeroEvent]

\* json.Unmarshal(msg.Value, &event): an error unless the bytes are a JSON
\* object; the event's fields are those of the object.
Unmarshal(value) ==
    IF Len(value) = 4 /\ value[1] = "{" /\ value[4] = "}"
    THEN [err |-> FALSE, event |-> [Email |-> value[2], Message |-> value[3]]]
    ELSE [err |-> TRUE, event |-> ZeroEvent]

\* The producer's partitioner: the key alone chooses the partition.
KeyHash(k) == IF k = "a@x.com" THEN 0 ELSE 1
PartitionOf(k) == KeyHash(k) % NumPartitions

(* ------------------------- consumer configuration --------------------- *)
\* sarama.NewConsumerGroup(brokers, "project-service-group", config)
\* A group id of its own for every instance.
GroupID_PerInstance(m) ==
    IF m = 1 THEN "project-service-group" ELSE "project-service-group-extra"

GroupID(m) == "project-service-group"

Groups == {GroupID(m) : m \in Members}

\* sarama.OffsetOldest: with no committed offset a claim starts at the first
\* message of the log.
OffsetsInitial_Oldest(logLen) == 0

\* config.Consumer.Offsets.Initial = sarama.OffsetNewest: with no committed
\* offset a claim starts at the end of the partition's log.
OffsetsInitial(logLen) == logLen

\* config.Consumer.Group.Rebalance.Strategy = RoundRobin: the partitions are
\* dealt in turn to the members of the generation, in member order.
Rank(ms, m) == Cardinality({x \in ms : x < m})
RoundRobin(ms, p) == CHOOSE m \in ms : Rank(ms, m) = p % Cardinality(ms)

VARIABLES
    log,        \* broker: log[p] is the sequence of messages of partition p
    committed,  \* broker: committed[g][p], the group's committed offset
    gen,        \* broker: gen[g], the group's generation
    roster,     \* broker: roster[g], the members of the current generation
    st,         \* st[m]: where Consumer.Start of member m stands
    ret,        \* ret[m]: what Start returned
    ctxDone,    \* ctxDone[m]: the context given to Start is cancelled
    closing,    \* closing[m]: the session's context is done, claims close
    buffered,   \* buffered[m][p]: end of what a closing claim still delivers
    sgen,       \* sgen[m]: the generation of the member's session
    pc,         \* pc[m][p]: where ConsumeClaim of m on p stands
    pos,        \* pos[m][p]: offset of the message ConsumeClaim is at
    mark,       \* mark[m][p]: the session's marked offset (not yet committed)
    sink,       \* the store: the Records in creation order
    delivered,  \* history: deliveries <<m, generation, p, offset>>
    calls,      \* history: the Repository.Create calls, in order, with their outcome
    lateJoin,   \* history: lateJoin[m], joins m made again after its cancellation
    consumeErrs,\* history: consumeErrs[m], Consume calls of m that returned an error
    lost,       \* history: messages marked but not committed when their member died
    formed,     \* history: <<g, generation, p, offset committed when it was formed,
                \*            length of p's log when it was formed>>
    sent,       \* the producer.SendMessage calls of the student-service, in order
    responses,  \* the POST /messages requests answered so far, with their answer
    faults,     \* how many faults the environment has injected
    life,       \* life[m]: where the shutdown of process m stands
    released,   \* released[m]: the process has released its Producer and Sink
    students,   \* the students table: students[id] is the row with that id
    nextID,     \* the students table's next autoincrement id
    reply,      \* the last /api/students request and its answer
    deleted     \* history: the ids whose DELETE was answered 204

vars == <<log, committed, gen, roster, st, ret, ctxDone, closing, buffered, sgen, pc,
          pos, mark, sink, delivered, calls, lateJoin, consumeErrs, lost, formed,
          sent, responses, faults, life, released, students, nextID, reply,
          deleted>>

brokerVars == <<log, committed, gen, roster>>
startVars == <<st, ret, ctxDone, closing, buffered, sgen>>
claimVars == <<pc, pos, mark>>
histVars == <<delivered, calls, lateJoin, consumeErrs>>
httpVars == <<sent, responses>>
pastVars == <<lost, formed>>
budgetVars == <<faults>>
lifeVars == <<life, released>>
studentVars == <<students, nextID, reply, deleted>>
pipelineVars == <<brokerVars, startVars, claimVars, sink, histVars, httpVars,
                  pastVars, budgetVars, lifeVars>>

\* No /api/students request has been answered yet.
NoReply == [n |-> 0, op |-> "none", path |-> <<>>, body |-> <<>>, svc |-> FALSE,
            err |-> "nil", called |-> FALSE, code |-> 0]

NoClaims == [p \in Partitions |-> "none"]
ZeroOffsets == [p \in Partitions |-> 0]

Init ==
    /\ log = [p \in Partitions |-> <<>>]
    /\ committed = [g \in Groups |-> [p \in Partitions |-> NoOffset]]
    /\ gen = [g \in Groups |-> 0]
    /\ roster = [g \in Groups |-> {}]
    /\ st = [m \in Members |-> "new"]
    /\ ret = [m \in Members |-> "none"]
    /\ ctxDone = [m \in Members |-> FALSE]
    /\ closing = [m \in Members |-> FALSE]
    /\ buffered = [m \in Members |-> ZeroOffsets]
    /\ sgen = [m \in Members |-> 0]
    /\ pc = [m \in Members |-> NoClaims]
    /\ pos = [m \in Members |-> ZeroOffsets]
    /\ mark = [m \in Members |-> ZeroOffsets]
    /\ sink = <<>>
    /\ delivered = {}
    /\ calls = <<>>
    /\ lateJoin = [m \in Members |-> 0]
    /\ consumeErrs = [m \in Members |-> 0]
    /\ lost = {}
    /\ formed = {}
    /\ sent = <<>>
    /\ responses = <<>>
    /\ faults = 0
    /\ life = [m \in Members |-> "up"]
    /\ released = [m \in Members |-> FALSE]
    /\ students = <<>>
    /\ nextID = 1
    /\ reply = NoReply
    /\ deleted = {}

(* ------------------------------ helpers ------------------------------- *)
Published == LET n[S \in SUBSET Partitions] ==
                     IF S = {} THEN 0
                     ELSE LET p == CHOOSE q \in S : TRUE
                          IN Len(log[p]) + n[S \ {p}]
             IN n[Partitions]

\* The member holds a session of the group's current generation.
Live(m) == /\ st[m] = "session"
           /\ m \in roster[GroupID(m)]
           /\ sgen[m] = gen[GroupID(m)]

Claims(m) == {p \in Partitions : pc[m][p] # "none"}

\* The message ConsumeClaim of m on p is at.
Msg(m, p) == log[p][pos[m][p] + 1]

\* A rebalance is due: the sessions of the generation's members are told to
\* end (their claims' Messages() channels close).
NotifyRebalance(g, cl) ==
    [x \in Members |-> IF x \in roster[g] /\ st[x] = "session" THEN TRUE ELSE cl[x]]

\* What was fetched when the session's context got done is still in the
\* Messages() channels and is delivered before they close.
LogEnds == [p \in Partitions |-> Len(log[p])]

Drain(cl, cl2, buf) ==
    [x \in Members |-> IF cl2[x] /\ ~cl[x] THEN LogEnds ELSE buf[x]]

Max(a, b) == IF a >= b THEN a ELSE b

\* The environment injects one more fault (a crash, an outage, a cancellation,
\* a member too slow to end its session).
Fault == faults < MaxFaults /\ faults' = faults + 1

(* ------------------------------ producer ------------------------------ *)
\* A service that fills the event's fields the wrong way round.
SendMessage_Swapped(email, message) ==
    [key |-> email, value |-> Marshal([Email |-> message, Message |-> email])]

\* Service.SendMessage(ctx, email, message): the event carries the sender's
\* email, which is also the message key.
SendMessage(email, message) ==
    [key |-> email, value |-> Marshal([Email |-> email, Message |-> message])]

(* -------------------------- POST /messages ---------------------------- *)
StatusOK == 200
StatusCreated == 201
StatusNoContent == 204
StatusNotFound == 404
StatusBadRequest == 400
StatusUnauthorized == 401
StatusInternalServerError == 500

\* The request's context holds no auth.EmailKey.
NoEmail == "<none>"
Emails == Keys \cup {NoEmail}

\* message.SendMessageRequest{Message} as json.Marshal writes it.
RequestBody(message) == <<"{", message, "}">>
Payloads == {Garbage} \cup {RequestBody(b) : b \in Bodies \cup {""}}
Requests == [email : Emails, payload : Payloads]

\* What producer.SendMessage can return: nil, or the error of a failed send.
Outcomes == {"nil", "err"}

\* The handler decodes the body into a SendMessageRequest.
DecodeRequest(payload) ==
    IF Len(payload) = 3 /\ payload[1] = "{" /\ payload[3] = "}"
    THEN [err |-> FALSE, Message |-> payload[2]]
    ELSE [err |-> TRUE, Message |-> ""]

\* A Service.SendMessage that logs the producer's error and returns nil.
SendResult_Swallow(outcome) == "nil"

\* A service that also fails once the consumer has failed to store a message.
SendResult_AfterStore(outcome) ==
    IF \E i \in 1..Len(calls) : ~calls[i].ok THEN "err" ELSE outcome

\* Service.SendMessage returns the producer's error, else nil.
SendResult(outcome) == IF outcome # "nil" THEN outcome ELSE "nil"

\* A handler that goes on without the sender's email.
Rejected_NoAuth(req) ==
    IF DecodeRequest(req.payload).err THEN StatusBadRequest
    ELSE IF DecodeRequest(req.payload).Message = "" THEN StatusBadRequest
    ELSE 0

\* A handler that takes any body that decodes.
Rejected_NoValidation(req) ==
    IF req.email = NoEmail THEN StatusUnauthorized
    ELSE 0

\* The handler's checks before the service is called: the status it answers
\* a request it turns down with, 0 for a request it accepts.
Rejected(req) ==
    IF req.email = NoEmail THEN StatusUnauthorized
    ELSE IF DecodeRequest(req.payload).err THEN StatusBadRequest
    ELSE IF DecodeRequest(req.payload).Message = "" THEN StatusBadRequest
    ELSE 0

\* The handler's answer to what Service.SendMessage returned.
StatusOf(result) ==
    IF result = "nil" THEN StatusOK ELSE StatusInternalServerError

\* The handler of POST /messages answers req; the producer, when it is called,
\* returns outcome, and the broker has (reached) or has not taken the message:
\* after a failed send either can be the case.
Handle(req, outcome, reached) ==
    LET message == DecodeRequest(req.payload).Message
        msg == SendMessage(req.email, message)
    IN
    /\ outcome = "nil" => reached
    /\ IF Rejected(req) # 0
       THEN /\ responses' = Append(responses,
                   [email |-> req.email, payload |-> req.payload,
                    result |-> "none", code |-> Rejected(req)])
            /\ UNCHANGED <<sent, log>>
       ELSE /\ sent' = Append(sent, [Key |-> msg.key, Value |-> msg.value,
                                     err |-> outcome])
            /\ log' = IF reached
                      THEN [log EXCEPT ![PartitionOf(msg.key)] = Append(@, msg)]
                      ELSE log
            /\ responses' = Append(responses,
                   [email |-> req.email, payload |-> req.payload,
                    result |-> SendResult(outcome),
                    code |-> StatusOf(SendResult(outcome))])
    /\ UNCHANGED <<committed, gen, roster, sink>>
    /\ UNCHANGED <<startVars, claimVars, histVars>>
    /\ UNCHANGED pastVars
    /\ UNCHANGED <<lifeVars, studentVars>>

\* Any request, whatever the producer does.
PostMessages(req, outcome, reached) ==
    /\ Len(responses) < MaxRequests
    /\ Handle(req, outcome, reached)
    /\ UNCHANGED budgetVars

\* A request accepted by the student-service is published.
Publish(email, message) ==
    /\ Published < MaxPublish
    /\ Handle([email |-> email, payload |-> RequestBody(message)], "nil", TRUE)
    /\ UNCHANGED budgetVars

\* The producer's send fails (broker unreachable) for an accepted request.
SendFails(email, message, reached) ==
    /\ Published < MaxPublish
    /\ Fault
    /\ Handle([email |-> email, payload |-> RequestBody(message)], "err", reached)

\* Some other client writes bytes that are not JSON straight to the topic.
PublishRaw(p) ==
    /\ Published < MaxPublish
    /\ log' = [log EXCEPT ![p] = Append(@, [key |-> "", value |-> Garbage])]
    /\ UNCHANGED <<committed, gen, roster, sink>>
    /\ UNCHANGED <<startVars, claimVars, histVars, budgetVars>>
    /\ UNCHANGED httpVars
    /\ UNCHANGED pastVars
    /\ UNCHANGED <<lifeVars, studentVars>>

(* --------------------------- Consumer.Start --------------------------- *)
\* The process calls Consumer.Start(ctx).
Start(m) ==
    /\ st[m] = "new"
    /\ st' = [st EXCEPT ![m] = "consume"]
    /\ UNCHANGED <<brokerVars, ret, ctxDone, closing, buffered, sgen, claimVars, sink>>
    /\ UNCHANGED <<histVars, budgetVars>>
    /\ UNCHANGED httpVars
    /\ UNCHANGED pastVars
    /\ UNCHANGED <<lifeVars, studentVars>>

\* A cancellation that aborts the Create calls in progress.
Cancel_Abort(m) ==
    /\ st[m] \in {"consume", "joining", "session", "check"}
    /\ ~ctxDone[m]
    /\ ctxDone' = [ctxDone EXCEPT ![m] = TRUE]
    /\ closing' = [closing EXCEPT ![m] = (st[m] = "session") \/ @]
    /\ buffered' = Drain(closing, closing', buffered)
    /\ pc' = [pc EXCEPT ![m] =
                [p \in Partitions |-> IF pc[m][p] = "create" THEN "recv" ELSE pc[m][p]]]
    /\ Fault
    /\ UNCHANGED <<brokerVars, st, ret, sgen, pos, mark, sink, histVars>>
    /\ UNCHANGED httpVars
    /\ UNCHANGED pastVars
    /\ UNCHANGED <<lifeVars, studentVars>>

\* The owner of the context cancels it (shutdown request).
Cancel(m) ==
    /\ st[m] \in {"consume", "joining", "session", "check"}
    /\ ~ctxDone[m]
    /\ ctxDone' = [ctxDone EXCEPT ![m] = TRUE]
    /\ closing' = [closing EXCEPT ![m] = (st[m] = "session") \/ @]
    /\ buffered' = Drain(closing, closing', buffered)
    /\ Fault
    /\ UNCHANGED <<brokerVars, st, ret, sgen, claimVars, sink, histVars>>
    /\ UNCHANGED httpVars
    /\ UNCHANGED pastVars
    /\ UNCHANGED <<lifeVars, studentVars>>

\* A member that is gone from the group: the others rebalance.
Leave(m) ==
    /\ roster' = [roster EXCEPT ![GroupID(m)] = @ \ {m}]
    /\ UNCHANGED <<log, committed, gen>>

\* Start logs the error of Consume and calls Consume again.
ConsumeError_Retry(m) ==
    /\ st[m] = "consume"
    /\ consumeErrs' = [consumeErrs EXCEPT ![m] = @ + 1]
    /\ Fault
    /\ UNCHANGED <<brokerVars, startVars, claimVars, sink, delivered, calls, lateJoin>>
    /\ UNCHANGED httpVars
    /\ UNCHANGED pastVars
    /\ UNCHANGED <<lifeVars, studentVars>>

\* c.consumer.Consume(...) returns an error (broker unreachable, join
\* failure): Start logs it and returns it.
ConsumeError(m) ==
    /\ st[m] = "consume"
    /\ st' = [st EXCEPT ![m] = "done"]
    /\ ret' = [ret EXCEPT ![m] = "brokerErr"]
    /\ consumeErrs' = [consumeErrs EXCEPT ![m] = @ + 1]
    /\ Fault
    /\ Leave(m)
    /\ closing' = NotifyRebalance(GroupID(m), closing)
    /\ buffered' = Drain(closing, closing', buffered)
    /\ UNCHANGED <<ctxDone, sgen, claimVars, sink, delivered, calls, lateJoin>>
    /\ UNCHANGED httpVars
    /\ UNCHANGED pastVars
    /\ UNCHANGED <<lifeVars, studentVars>>

\* Consume is called with a context that is already cancelled and returns
\* the context's error without joining.
ConsumeCancelled(m) ==
    /\ st[m] = "consume"
    /\ ctxDone[m]
    /\ st' = [st EXCEPT ![m] = "done"]
    /\ ret' = [ret EXCEPT ![m] = "ctxErr"]
    /\ Leave(m)
    /\ closing' = NotifyRebalance(GroupID(m), closing)
    /\ buffered' = Drain(closing, closing', buffered)
    /\ UNCHANGED <<ctxDone, sgen, claimVars, sink, histVars, budgetVars>>
    /\ UNCHANGED httpVars
    /\ UNCHANGED pastVars
    /\ UNCHANGED <<lifeVars, studentVars>>

\* Consume sends the join request: the group rebalances.
ConsumeJoin(m) ==
    /\ st[m] = "consume"
    /\ st' = [st EXCEPT ![m] = "joining"]
    /\ closing' = NotifyRebalance(GroupID(m), closing)
    /\ buffered' = Drain(closing, closing', buffered)
    /\ lateJoin' = IF ctxDone[m] /\ sgen[m] > 0
                   THEN [lateJoin EXCEPT ![m] = @ + 1] ELSE lateJoin
    /\ UNCHANGED <<brokerVars, ret, ctxDone, sgen, claimVars, sink>>
    /\ UNCHANGED <<delivered, calls, consumeErrs, budgetVars>>
    /\ UNCHANGED httpVars
    /\ UNCHANGED pastVars
    /\ UNCHANGED <<lifeVars, studentVars>>

(* ------------------------- group coordinator -------------------------- *)
Joining(g) == {m \in Members : st[m] = "joining" /\ GroupID(m) = g}

\* Members of the generation whose session has not ended yet.
Stale(g) == {m \in roster[g] : st[m] = "session" /\ sgen[m] = gen[g]}

\* A claim that always starts at the end of the log.
StartOffset_Newest(g, p) == Len(log[p])

\* A claim that always starts at the first message.
StartOffset_Earliest(g, p) == 0

\* Where a new claim on p starts: the committed offset, else the initial one.
StartOffset(g, p) ==
    IF committed[g][p] = NoOffset THEN OffsetsInitial(Len(log[p]))
    ELSE committed[g][p]

\* The coordinator closes the join phase: the members that joined form the
\* next generation and each gets its share of the partitions. A member that
\* did not end its session in time is dropped from the group (it still runs).
FormGeneration(g) ==
    LET J == Joining(g) IN
    /\ J # {}
    /\ \A m \in roster[g] : st[m] \notin {"check", "consume"}
    /\ \/ Stale(g) = {} /\ UNCHANGED faults
       \/ Stale(g) # {} /\ Fault
    /\ gen' = [gen EXCEPT ![g] = @ + 1]
    /\ roster' = [roster EXCEPT ![g] = J]
    /\ st' = [m \in Members |-> IF m \in J THEN "session" ELSE st[m]]
    /\ sgen' = [m \in Members |-> IF m \in J THEN gen[g] + 1 ELSE sgen[m]]
    /\ closing' = [m \in Members |-> IF m \in J THEN ctxDone[m] ELSE closing[m]]
    /\ buffered' = [m \in Members |-> IF m \in J THEN ZeroOffsets ELSE buffered[m]]
    /\ pc' = [m \in Members |->
                IF m \in J
                THEN [p \in Partitions |->
                        IF RoundRobin(J, p) = m THEN "recv" ELSE "none"]
                ELSE pc[m]]
    /\ pos' = [m \in Members |->
                IF m \in J THEN [p \in Partitions |-> StartOffset(g, p)] ELSE pos[m]]
    /\ mark' = [m \in Members |->
                IF m \in J THEN [p \in Partitions |-> committed[g][p]] ELSE mark[m]]
    /\ formed' = formed \cup {<<g, gen[g] + 1, p, committed[g][p], Len(log[p])>> :
                                p \in Partitions}
    /\ UNCHANGED <<log, committed, ret, ctxDone, sink, histVars, lost>>
    /\ UNCHANGED httpVars
    /\ UNCHANGED <<lifeVars, studentVars>>

(* ------------------------ message.Repository -------------------------- *)
\* A store that keeps one Record per (Email, Message).
RepositoryCreate_Dedup(records, rec) ==
    IF \E i \in 1..Len(records) :
           records[i].Email = rec.Email /\ records[i].Message = rec.Message
    THEN records
    ELSE Append(records, [rec EXCEPT !.ID = Len(records) + 1])

\* A store that keeps one Record per Email and overwrites it.
RepositoryCreate_Upsert(records, rec) ==
    IF \E i \in 1..Len(records) : records[i].Email = rec.Email
    THEN LET i == CHOOSE k \in 1..Len(records) : records[k].Email = rec.Email
         IN [records EXCEPT ![i] = [rec EXCEPT !.ID = i]]
    ELSE Append(records, [rec EXCEPT !.ID = Len(records) + 1])

\* A store that counts the ids for each partition's task apart.
RepositoryCreate_PerPartitionID(records, rec) ==
    Append(records,
           [rec EXCEPT !.ID = 1 + Cardinality({i \in 1..Len(records) :
                                   records[i].src[3] = rec.src[3]})])

\* A store that leaves the id as it got it.
RepositoryCreate_NoID(records, rec) == Append(records, rec)

\* Repository.Create(ctx, msg): the store gives the Record its id and keeps
\* it (the mock: msg.ID = len(m.messages) + 1; append).
RepositoryCreate(records, rec) ==
    Append(records, [rec EXCEPT !.ID = Len(records) + 1])

(* --------------------- consumerGroupHandler.ConsumeClaim -------------- *)
Running(m, p) == st[m] = "session" /\ pc[m][p] # "none"

\* session.MarkMessage(msg, ""): the offset after msg is marked, unless a
\* later one already is.
MarkMessage(marked, offset) == Max(marked, offset + 1)

\* The message is marked but the claim stays at it.
MarkAndContinue_Stay(m, p) ==
    /\ mark' = [mark EXCEPT ![m][p] = MarkMessage(@, pos[m][p])]
    /\ pos' = pos
    /\ pc' = [pc EXCEPT ![m][p] = "recv"]

\* Mark the current message and go on to the next one (continue).
MarkAndContinue(m, p) ==
    /\ mark' = [mark EXCEPT ![m][p] = MarkMessage(@, pos[m][p])]
    /\ pos' = [pos EXCEPT ![m][p] = @ + 1]
    /\ pc' = [pc EXCEPT ![m][p] = "recv"]

\* The message is marked as soon as it is received, before it is processed.
Receive_MarkFirst(m, p) ==
    /\ Running(m, p)
    /\ pc[m][p] = "recv"
    /\ pos[m][p] < Len(log[p])
    /\ closing[m] => pos[m][p] < buffered[m][p]
    /\ delivered' = delivered \cup {<<m, sgen[m], p, pos[m][p]>>}
    /\ IF Unmarshal(Msg(m, p).value).err
       THEN MarkAndContinue(m, p)
       ELSE /\ pc' = [pc EXCEPT ![m][p] = "create"]
            /\ mark' = [mark EXCEPT ![m][p] = MarkMessage(@, pos[m][p])]
            /\ UNCHANGED pos
    /\ UNCHANGED <<brokerVars, startVars, sink, calls, lateJoin, consumeErrs, budgetVars>>
    /\ UNCHANGED httpVars
    /\ UNCHANGED pastVars
    /\ UNCHANGED <<lifeVars, studentVars>>

\* for msg := range claim.Messages(): the next message of the claim arrives
\* and json.Unmarshal(msg.Value, &event) decodes it; on an error the message
\* is marked and skipped.
Receive(m, p) ==
    /\ Running(m, p)
    /\ pc[m][p] = "recv"
    /\ pos[m][p] < Len(log[p])
    /\ closing[m] => pos[m][p] < buffered[m][p]
    /\ delivered' = delivered \cup {<<m, sgen[m], p, pos[m][p]>>}
    /\ IF Unmarshal(Msg(m, p).value).err
       THEN MarkAndContinue(m, p)
       ELSE /\ pc' = [pc EXCEPT ![m][p] = "create"]
            /\ UNCHANGED <<pos, mark>>
    /\ UNCHANGED <<brokerVars, startVars, sink, calls, lateJoin, consumeErrs, budgetVars>>
    /\ UNCHANGED httpVars
    /\ UNCHANGED pastVars
    /\ UNCHANGED <<lifeVars, studentVars>>

\* The delivery ConsumeClaim of m on p is at: member, generation, partition,
\* offset.
Delivery(m, p) == <<m, sgen[m], p, pos[m][p]>>

\* The two fields of the Record are filled the wrong way round.
DbMessage_Swapped(m, p) ==
    LET event == Unmarshal(Msg(m, p).value).event
    IN [ID |-> 0, Email |-> event.Message, Message |-> event.Email,
        src |-> Delivery(m, p)]

\* dbMessage := &message.Message{Email: event.Email, Message: event.Message}
\* (src is history: the delivery the Record is made from).
DbMessage(m, p) ==
    LET event == Unmarshal(Msg(m, p).value).event
    IN [ID |-> 0, Email |-> event.Email, Message |-> event.Message,
        src |-> Delivery(m, p)]

\* Another ConsumeClaim, on another partition, is inside Create as well.
Overlapped(m, p) ==
    \E m2 \in Members, p2 \in Partitions \ {p} : pc[m2][p2] = "create"

\* h.repository.Create(context.Background(), dbMessage) returns nil; a Sink
\* that has been released stores nothing. (released and cancelled are history:
\* whether the Sink was released, and the context of Start cancelled, when
\* the call returned.)
CreateOk(m, p) ==
    /\ Running(m, p)
    /\ pc[m][p] = "create"
    /\ ~released[m]
    /\ sink' = RepositoryCreate(sink, DbMessage(m, p))
    /\ calls' = Append(calls, [d |-> Delivery(m, p), ok |-> TRUE,
                                overlap |-> Overlapped(m, p),
                                released |-> released[m],
                                cancelled |-> ctxDone[m]])
    /\ pc' = [pc EXCEPT ![m][p] = "markOk"]
    /\ UNCHANGED <<brokerVars, startVars, pos, mark, delivered, lateJoin, consumeErrs>>
    /\ UNCHANGED budgetVars
    /\ UNCHANGED httpVars
    /\ UNCHANGED pastVars
    /\ UNCHANGED <<lifeVars, studentVars>>

\* h.repository.Create returns an error (store outage): nothing is stored.
CreateFail(m, p) ==
    /\ Running(m, p)
    /\ pc[m][p] = "create"
    /\ calls' = Append(calls, [d |-> Delivery(m, p), ok |-> FALSE,
                                overlap |-> Overlapped(m, p),
                                released |-> released[m],
                                cancelled |-> ctxDone[m]])
    /\ pc' = [pc EXCEPT ![m][p] = "markErr"]
    /\ UNCHANGED <<brokerVars, startVars, pos, mark, sink, delivered, lateJoin, consumeErrs>>
    /\ UNCHANGED budgetVars
    /\ UNCHANGED httpVars
    /\ UNCHANGED pastVars
    /\ UNCHANGED <<lifeVars, studentVars>>

\* Create is called again after it failed.
MarkFailed_Retry(m, p) ==
    /\ Running(m, p)
    /\ pc[m][p] = "markErr"
    /\ pc' = [pc EXCEPT ![m][p] = "create"]
    /\ UNCHANGED <<brokerVars, startVars, pos, mark, sink, histVars, budgetVars>>
    /\ UNCHANGED httpVars
    /\ UNCHANGED pastVars
    /\ UNCHANGED <<lifeVars, studentVars>>

\* The loop goes on after a failed Create without marking the message.
MarkFailed_NoMark(m, p) ==
    /\ Running(m, p)
    /\ pc[m][p] = "markErr"
    /\ pos' = [pos EXCEPT ![m][p] = @ + 1]
    /\ pc' = [pc EXCEPT ![m][p] = "recv"]
    /\ UNCHANGED <<brokerVars, startVars, mark, sink, histVars, budgetVars>>
    /\ UNCHANGED httpVars
    /\ UNCHANGED pastVars
    /\ UNCHANGED <<lifeVars, studentVars>>

\* ConsumeClaim returns the error of Create, which ends Consume and Start.
MarkFailed_Return(m, p) ==
    /\ Running(m, p)
    /\ pc[m][p] = "markErr"
    /\ st' = [st EXCEPT ![m] = "done"]
    /\ ret' = [ret EXCEPT ![m] = "createErr"]
    /\ pc' = [pc EXCEPT ![m] = NoClaims]
    /\ UNCHANGED <<brokerVars, ctxDone, closing, buffered, sgen, pos, mark, sink>>
    /\ UNCHANGED <<histVars, budgetVars>>
    /\ UNCHANGED httpVars
    /\ UNCHANGED pastVars
    /\ UNCHANGED <<lifeVars, studentVars>>

\* "Still mark as consumed to avoid reprocessing": MarkMessage; continue.
MarkFailed(m, p) ==
    /\ Running(m, p)
    /\ pc[m][p] = "markErr"
    /\ MarkAndContinue(m, p)
    /\ UNCHANGED <<brokerVars, startVars, sink, histVars, budgetVars>>
    /\ UNCHANGED httpVars
    /\ UNCHANGED pastVars
    /\ UNCHANGED <<lifeVars, studentVars>>

\* The message is saved: MarkMessage, next iteration.
MarkSaved(m, p) ==
    /\ Running(m, p)
    /\ pc[m][p] = "markOk"
    /\ MarkAndContinue(m, p)
    /\ UNCHANGED <<brokerVars, startVars, sink, histVars, budgetVars>>
    /\ UNCHANGED httpVars
    /\ UNCHANGED pastVars
    /\ UNCHANGED <<lifeVars, studentVars>>

(* --------------------------- offset commits --------------------------- *)
\* A broker that takes the commit of any generation.
Commit_Unfenced(m, ps) ==
    [committed EXCEPT ![GroupID(m)] =
        [p \in Partitions |->
            IF p \in ps /\ mark[m][p] # @[p] THEN mark[m][p] ELSE @[p]]]

\* What the broker holds for the group after member m commits its marks on
\* the partitions ps: the marks that moved since the session read them
\* replace the group's offsets; a commit of another generation is refused.
Commit(m, ps) ==
    LET g == GroupID(m) IN
    IF Live(m)
    THEN [committed EXCEPT ![g] =
            [p \in Partitions |->
                IF p \in ps /\ mark[m][p] # @[p] THEN mark[m][p] ELSE @[p]]]
    ELSE committed

\* The session commits on its own cadence (sarama.NewConfig(): auto-commit).
AutoCommit(m, p) ==
    /\ Running(m, p)
    /\ Live(m)
    /\ mark[m][p] # committed[GroupID(m)][p]
    /\ committed' = Commit(m, {p})
    /\ UNCHANGED <<log, gen, roster, startVars, claimVars, sink, histVars>>
    /\ UNCHANGED budgetVars
    /\ UNCHANGED httpVars
    /\ UNCHANGED pastVars
    /\ UNCHANGED <<lifeVars, studentVars>>

\* The session is over (cancellation or rebalance): every ConsumeClaim has
\* left its loop and returned nil, Cleanup ran, the marks are flushed, and
\* Consume returns nil.
Release(m) ==
    /\ st[m] = "session"
    /\ closing[m]
    /\ \A p \in Partitions : pc[m][p] \in {"none", "recv"}
    /\ committed' = Commit(m, Claims(m))
    /\ st' = [st EXCEPT ![m] = "check"]
    /\ closing' = [closing EXCEPT ![m] = FALSE]
    /\ buffered' = [buffered EXCEPT ![m] = ZeroOffsets]
    /\ pc' = [pc EXCEPT ![m] = NoClaims]
    /\ UNCHANGED <<log, gen, roster, ret, ctxDone, sgen, pos, mark, sink>>
    /\ UNCHANGED <<histVars, budgetVars>>
    /\ UNCHANGED httpVars
    /\ UNCHANGED pastVars
    /\ UNCHANGED <<lifeVars, studentVars>>

\* The loop goes round without looking at the context.
CheckCancelled_Loop(m) ==
    /\ st[m] = "check"
    /\ ctxDone[m]
    /\ st' = [st EXCEPT ![m] = "consume"]
    /\ UNCHANGED <<brokerVars, ret, ctxDone, closing, buffered, sgen, claimVars, sink>>
    /\ UNCHANGED <<histVars, budgetVars>>
    /\ UNCHANGED httpVars
    /\ UNCHANGED pastVars
    /\ UNCHANGED <<lifeVars, studentVars>>

\* if ctx.Err() != nil { return ctx.Err() }
CheckCancelled(m) ==
    /\ st[m] = "check"
    /\ ctxDone[m]
    /\ st' = [st EXCEPT ![m] = "done"]
    /\ ret' = [ret EXCEPT ![m] = "ctxErr"]
    /\ Leave(m)
    /\ closing' = NotifyRebalance(GroupID(m), closing)
    /\ buffered' = Drain(closing, closing', buffered)
    /\ UNCHANGED <<ctxDone, sgen, claimVars, sink, histVars, budgetVars>>
    /\ UNCHANGED httpVars
    /\ UNCHANGED pastVars
    /\ UNCHANGED <<lifeVars, studentVars>>

\* Start returns nil when a session has ended.
CheckLoop_Return(m) ==
    /\ st[m] = "check"
    /\ ~ctxDone[m]
    /\ st' = [st EXCEPT ![m] = "done"]
    /\ ret' = [ret EXCEPT ![m] = "nil"]
    /\ UNCHANGED <<brokerVars, ctxDone, closing, buffered, sgen, claimVars, sink>>
    /\ UNCHANGED <<histVars, budgetVars>>
    /\ UNCHANGED httpVars
    /\ UNCHANGED pastVars
    /\ UNCHANGED <<lifeVars, studentVars>>

\* The context is not cancelled: the for loop calls Consume again.
CheckLoop(m) ==
    /\ st[m] = "check"
    /\ ~ctxDone[m]
    /\ st' = [st EXCEPT ![m] = "consume"]
    /\ UNCHANGED <<brokerVars, ret, ctxDone, closing, buffered, sgen, claimVars, sink>>
    /\ UNCHANGED <<histVars, budgetVars>>
    /\ UNCHANGED httpVars
    /\ UNCHANGED pastVars
    /\ UNCHANGED <<lifeVars, studentVars>>

(* ------------------------------ failures ------------------------------ *)
\* The messages member m has marked in its session and whose mark the group
\* has not committed; base is the group's committed offset on the partition.
LostMarks(m) ==
    {[p |-> d[3], o |-> d[4], g |-> d[2], base |-> committed[GroupID(m)][d[3]]] :
        d \in {e \in delivered :
                  /\ st[m] = "session"
                  /\ e[1] = m
                  /\ e[2] = sgen[m]
                  /\ e[4] < mark[m][e[3]]
                  /\ e[4] >= committed[GroupID(m)][e[3]]}}

\* The process dies: what it held in memory (its marks) is gone.
Crash(m) ==
    /\ st[m] \in {"consume", "joining", "session", "check"}
    /\ Fault
    /\ st' = [st EXCEPT ![m] = "down"]
    /\ ctxDone' = [ctxDone EXCEPT ![m] = FALSE]
    /\ closing' = [NotifyRebalance(GroupID(m), closing) EXCEPT ![m] = FALSE]
    /\ buffered' = [Drain(closing, closing', buffered) EXCEPT ![m] = ZeroOffsets]
    /\ pc' = [pc EXCEPT ![m] = NoClaims]
    /\ lateJoin' = [lateJoin EXCEPT ![m] = 0]
    /\ sgen' = [sgen EXCEPT ![m] = 0]
    /\ lost' = lost \cup LostMarks(m)
    /\ Leave(m)
    /\ UNCHANGED <<ret, pos, mark, sink, delivered, calls, consumeErrs, formed>>
    /\ UNCHANGED httpVars
    /\ UNCHANGED <<lifeVars, studentVars>>

\* The process is started again: NewConsumer, then Start with a new context.
Restart(m) ==
    /\ st[m] = "down"
    /\ st' = [st EXCEPT ![m] = "consume"]
    /\ UNCHANGED <<brokerVars, ret, ctxDone, closing, buffered, sgen, claimVars, sink>>
    /\ UNCHANGED <<histVars, budgetVars>>
    /\ UNCHANGED httpVars
    /\ UNCHANGED pastVars
    /\ UNCHANGED <<lifeVars, studentVars>>

(* ------------------------- shutdown controller ------------------------ *)
\* The controller has cancelled the context and calls Consumer.Close, which
\* it waits for.
AwaitClose(m) ==
    /\ life[m] = "up"
    /\ ctxDone[m]
    /\ life' = [life EXCEPT ![m] = "waiting"]
    /\ UNCHANGED <<brokerVars, startVars, claimVars, sink, histVars, httpVars>>
    /\ UNCHANGED <<pastVars, budgetVars, released, studentVars>>

\* Resources are released without waiting for Close.
CloseReturns_NoWait(m) ==
    /\ life[m] = "waiting"
    /\ life' = [life EXCEPT ![m] = "closed"]
    /\ UNCHANGED <<brokerVars, startVars, claimVars, sink, histVars, httpVars>>
    /\ UNCHANGED <<pastVars, budgetVars, released, studentVars>>

\* Consumer.Close returns c.consumer.Close(): the group is closed once the
\* Consume call in progress has returned, that is once the session is over
\* and every ConsumeClaim has exited.
CloseReturns(m) ==
    /\ life[m] = "waiting"
    /\ st[m] \in {"check", "done"}
    /\ life' = [life EXCEPT ![m] = "closed"]
    /\ UNCHANGED <<brokerVars, startVars, claimVars, sink, histVars, httpVars>>
    /\ UNCHANGED <<pastVars, budgetVars, released, studentVars>>

\* The shutdown timeout elapses before Close has returned.
ShutdownTimeout(m) ==
    /\ life[m] = "waiting"
    /\ life' = [life EXCEPT ![m] = "timeout"]
    /\ UNCHANGED <<brokerVars, startVars, claimVars, sink, histVars, httpVars>>
    /\ UNCHANGED <<pastVars, budgetVars, released, studentVars>>

\* The wait is over: the Producer and the Sink are released.
ReleaseResources(m) ==
    /\ life[m] \in {"closed", "timeout"}
    /\ ~released[m]
    /\ released' = [released EXCEPT ![m] = TRUE]
    /\ UNCHANGED <<brokerVars, startVars, claimVars, sink, histVars, httpVars>>
    /\ UNCHANGED <<pastVars, budgetVars, life, studentVars>>

(* --------------------------- student service -------------------------- *)
\* Texts are sequences of characters.
DigitChars == <<"0", "1", "2", "3", "4", "5", "6", "7", "8", "9">>
Digits == {DigitChars[i] : i \in 1..10}
Letters == {"a", "b", "c", "o", "x"}

DigitValue(ch) == (CHOOSE i \in 1..10 : DigitChars[i] = ch) - 1

RECURSIVE ParseUint(_)
ParseUint(s) ==
    IF Len(s) = 0 THEN 0
    ELSE 10 * ParseUint(SubSeq(s, 1, Len(s) - 1)) + DigitValue(s[Len(s)])

\* strconv.Atoi(vars["id"]): an optional sign and one digit or more.
Atoi(s) ==
    LET signed == Len(s) > 0 /\ s[1] \in {"+", "-"}
        digits == IF signed THEN Tail(s) ELSE s
    IN IF Len(digits) = 0 \/ \E k \in 1..Len(digits) : digits[k] \notin Digits
       THEN [err |-> TRUE, n |-> 0]
       ELSE [err |-> FALSE,
             n |-> IF s[1] = "-" THEN 0 - ParseUint(digits) ELSE ParseUint(digits)]

\* The {id} of the request paths.
PathIDs == {<<"a", "b", "c">>, <<"-", "1">>, <<"0">>, <<"1">>, <<"2">>, <<"3">>}

\* The emails of the request bodies.
StudentEmails ==
    {<<>>,
     <<"a", "@", "x", ".", "c", "o">>,
     <<"b", "@", "x", ".", "c", "o">>,
     <<"a", "@", "x", ".", "c">>,
     <<"a", "x", ".", "c", "o">>}

\* A Student as JSON: an object with the fields first_name, last_name, email
\* and year (no id: the table assigns it).
StudentJSON(firstName, lastName, email, year) ==
    <<"{", firstName, lastName, email, year, "}">>

StudentBodies ==
    {Garbage} \cup
    {StudentJSON(f, l, e, y) :
        f \in {"", "Jan"}, l \in {"", "Novak"}, e \in StudentEmails,
        y \in {-1, 0, 10, 11}}

\* json.NewDecoder(r.Body).Decode(&student)
DecodeStudent(body) ==
    IF Len(body) = 6 /\ body[1] = "{" /\ body[6] = "}"
    THEN [err |-> FALSE,
          student |-> [ID |-> 0, FirstName |-> body[2], LastName |-> body[3],
                       Email |-> body[4], Year |-> body[5]]]
    ELSE [err |-> TRUE,
          student |-> [ID |-> 0, FirstName |-> "", LastName |-> "",
                       Email |-> <<>>, Year |-> 0]]

\* emailRegex: ^[a-zA-Z0-9._%+\-]+@[a-zA-Z0-9.\-]+\.[a-zA-Z]{2,}$
LocalChars == Letters \cup Digits \cup {".", "_", "%", "+", "-"}
DomainChars == Letters \cup Digits \cup {".", "-"}

isValidEmail(email) ==
    \E i, j \in 1..Len(email) :
        /\ 1 < i /\ i + 1 < j /\ j + 2 <= Len(email)
        /\ email[i] = "@" /\ email[j] = "."
        /\ \A k \in 1..(i - 1) : email[k] \in LocalChars
        /\ \A k \in (i + 1)..(j - 1) : email[k] \in DomainChars
        /\ \A k \in (j + 1)..Len(email) : email[k] \in Letters

\* A validation that does not look at the year.
validateStudent_NoYear(student) ==
    IF student.FirstName = "" THEN "ErrInvalidInput"
    ELSE IF student.LastName = "" THEN "ErrInvalidInput"
    ELSE IF student.Email = <<>> THEN "ErrInvalidInput"
    ELSE IF ~isValidEmail(student.Email) THEN "ErrInvalidEmail"
    ELSE "nil"

validateStudent(student) ==
    IF student.FirstName = "" THEN "ErrInvalidInput"
    ELSE IF student.LastName = "" THEN "ErrInvalidInput"
    ELSE IF student.Email = <<>> THEN "ErrInvalidInput"
    ELSE IF ~isValidEmail(student.Email) THEN "ErrInvalidEmail"
    ELSE IF student.Year < 0 \/ student.Year > 10 THEN "ErrInvalidInput"
    ELSE "nil"

\* The unique constraint of the email column: another row has the email.
EmailTaken(rows, id, email) ==
    \E other \in DOMAIN rows : other # id /\ rows[other].Email = email

\* repository.Create: INSERT; the id is the table's next one, which is used
\* up even when the row is refused.
RepoCreate(rows, next, student) ==
    IF EmailTaken(rows, next, student.Email)
    THEN [err |-> "dbErr", rows |-> rows, next |-> next + 1]
    ELSE [err |-> "nil",
          rows |-> [id \in DOMAIN rows \cup {next} |->
                      IF id = next THEN [student EXCEPT !.ID = next] ELSE rows[id]],
          next |-> next + 1]

\* repository.GetByID: no row is (nil, nil).
RepoGetByID(rows, id) ==
    IF id \in DOMAIN rows THEN [err |-> "nil", found |-> TRUE]
    ELSE [err |-> "nil", found |-> FALSE]

\* An update that inserts the row when there is none.
RepoUpdate_Upsert(rows, student) ==
    IF EmailTaken(rows, student.ID, student.Email)
    THEN [err |-> "dbErr", rows |-> rows]
    ELSE [err |-> "nil",
          rows |-> [id \in DOMAIN rows \cup {student.ID} |->
                      IF id = student.ID THEN student ELSE rows[id]]]

\* repository.Update: UPDATE ... WHERE id = ?; no row affected is
\* sql.ErrNoRows.
RepoUpdate(rows, student) ==
    IF student.ID \notin DOMAIN rows THEN [err |-> "sql.ErrNoRows", rows |-> rows]
    ELSE IF EmailTaken(rows, student.ID, student.Email)
    THEN [err |-> "dbErr", rows |-> rows]
    ELSE [err |-> "nil", rows |-> [rows EXCEPT ![student.ID] = student]]

\* A delete that reports success and keeps the row.
RepoDelete_Keep(rows, id) ==
    IF id \notin DOMAIN rows THEN [err |-> "sql.ErrNoRows", rows |-> rows]
    ELSE [err |-> "nil", rows |-> rows]

\* repository.Delete: DELETE ... WHERE id = ?; no row affected is
\* sql.ErrNoRows.
RepoDelete(rows, id) ==
    IF id \notin DOMAIN rows THEN [err |-> "sql.ErrNoRows", rows |-> rows]
    ELSE [err |-> "nil", rows |-> [x \in DOMAIN rows \ {id} |-> rows[x]]]

\* service.CreateStudent (called: the repository was called).
CreateStudent(rows, next, student) ==
    LET v == validateStudent(student)
        r == RepoCreate(rows, next, student)
    IN IF v # "nil"
       THEN [err |-> v, called |-> FALSE, rows |-> rows, next |-> next]
       ELSE [err |-> r.err, called |-> TRUE, rows |-> r.rows, next |-> r.next]

\* service.GetStudentByID
GetStudentByID(rows, id) ==
    IF id <= 0 THEN [err |-> "ErrInvalidInput", called |-> FALSE]
    ELSE IF RepoGetByID(rows, id).err # "nil"
    THEN [err |-> RepoGetByID(rows, id).err, called |-> TRUE]
    ELSE IF ~RepoGetByID(rows, id).found
    THEN [err |-> "ErrStudentNotFound", called |-> TRUE]
    ELSE [err |-> "nil", called |-> TRUE]

\* service.UpdateStudent: every error of the repository is ErrStudentNotFound.
UpdateStudent(rows, student) ==
    LET v == validateStudent(student)
        r == RepoUpdate(rows, student)
    IN IF student.ID <= 0
       THEN [err |-> "ErrInvalidInput", called |-> FALSE, rows |-> rows]
       ELSE IF v # "nil"
       THEN [err |-> v, called |-> FALSE, rows |-> rows]
       ELSE IF r.err # "nil"
       THEN [err |-> "ErrStudentNotFound", called |-> TRUE, rows |-> r.rows]
       ELSE [err |-> "nil", called |-> TRUE, rows |-> r.rows]

\* service.DeleteStudent: every error of the repository is ErrStudentNotFound.
DeleteStudent(rows, id) ==
    LET r == RepoDelete(rows, id)
    IN IF id <= 0
       THEN [err |-> "ErrInvalidInput", called |-> FALSE, rows |-> rows]
       ELSE IF r.err # "nil"
       THEN [err |-> "ErrStudentNotFound", called |-> TRUE, rows |-> r.rows]
       ELSE [err |-> "nil", called |-> TRUE, rows |-> r.rows]

\* The answer to a request the service was not called for.
Refused(op, path, body, code) ==
    [n |-> reply.n + 1, op |-> op, path |-> path, body |-> body, svc |-> FALSE,
     err |-> "nil", called |-> FALSE, code |-> code]

\* The answer to a request the service was called for.
Served(op, path, body, result, code) ==
    [n |-> reply.n + 1, op |-> op, path |-> path, body |-> body, svc |-> TRUE,
     err |-> result.err, called |-> result.called, code |-> code]

\* Handler.CreateStudent: POST /api/students
HandlerCreateStudent(body) ==
    LET d == DecodeStudent(body)
        r == CreateStudent(students, nextID, d.student)
    IN
    /\ reply.n < MaxStudentRequests
    /\ nextID <= MaxStudents
    /\ IF d.err
       THEN /\ reply' = Refused("create", <<>>, body, StatusBadRequest)
            /\ UNCHANGED <<students, nextID>>
       ELSE /\ reply' = Served("create", <<>>, body, r,
                        IF r.err = "nil" THEN StatusCreated
                        ELSE IF r.err \in {"ErrInvalidInput", "ErrInvalidEmail"}
                        THEN StatusBadRequest
                        ELSE StatusInternalServerError)
            /\ students' = r.rows
            /\ nextID' = r.next
    /\ UNCHANGED <<deleted, pipelineVars>>

\* Handler.GetStudent: GET /api/students/{id}
HandlerGetStudent(path) ==
    LET id == Atoi(path)
        r == GetStudentByID(students, id.n)
    IN
    /\ reply.n < MaxStudentRequests
    /\ IF id.err
       THEN reply' = Refused("get", path, <<>>, StatusBadRequest)
       ELSE reply' = Served("get", path, <<>>, r,
                        IF r.err = "nil" THEN StatusOK
                        ELSE IF r.err = "ErrStudentNotFound" THEN StatusNotFound
                        ELSE StatusInternalServerError)
    /\ UNCHANGED <<students, nextID, deleted, pipelineVars>>

\* Handler.UpdateStudent: PUT /api/students/{id}
HandlerUpdateStudent(path, body) ==
    LET id == Atoi(path)
        d == DecodeStudent(body)
        r == UpdateStudent(students, [d.student EXCEPT !.ID = id.n])
    IN
    /\ reply.n < MaxStudentRequests
    /\ IF id.err \/ d.err
       THEN /\ reply' = Refused("update", path, body, StatusBadRequest)
            /\ UNCHANGED students
       ELSE /\ reply' = Served("update", path, body, r,
                        IF r.err = "nil" THEN StatusOK
                        ELSE IF r.err = "ErrStudentNotFound" THEN StatusNotFound
                        ELSE IF r.err \in {"ErrInvalidInput", "ErrInvalidEmail"}
                        THEN StatusBadRequest
                        ELSE StatusInternalServerError)
            /\ students' = r.rows
    /\ UNCHANGED <<nextID, deleted, pipelineVars>>

\* Handler.DeleteStudent: DELETE /api/students/{id}
HandlerDeleteStudent(path) ==
    LET id == Atoi(path)
        r == DeleteStudent(students, id.n)
    IN
    /\ reply.n < MaxStudentRequests
    /\ IF id.err
       THEN /\ reply' = Refused("delete", path, <<>>, StatusBadRequest)
            /\ UNCHANGED <<students, deleted>>
       ELSE /\ reply' = Served("delete", path, <<>>, r,
                        IF r.err = "nil" THEN StatusNoContent
                        ELSE IF r.err = "ErrStudentNotFound" THEN StatusNotFound
                        ELSE StatusInternalServerError)
            /\ students' = r.rows
            /\ deleted' = IF r.err = "nil" THEN deleted \cup {id.n} ELSE deleted
    /\ UNCHANGED <<nextID, pipelineVars>>

(* --------------------------- specification ---------------------------- *)
\* Every step but those of a broker or store outage.
NextNoOutage ==
    \/ \E k \in Keys, b \in Bodies : Publish(k, b)
    \/ \E p \in Partitions : PublishRaw(p)
    \/ \E m \in Members :
        \/ Start(m)
        \/ Cancel(m)
        \/ ConsumeCancelled(m)
        \/ ConsumeJoin(m)
        \/ Release(m)
        \/ CheckCancelled(m)
        \/ CheckLoop(m)
        \/ Crash(m)
        \/ Restart(m)
    \/ \E g \in Groups : FormGeneration(g)
    \/ \E m \in Members, p \in Partitions :
        \/ Receive(m, p)
        \/ CreateOk(m, p)
        \/ MarkSaved(m, p)
        \/ AutoCommit(m, p)

\* The steps of an outage: Consume or Create returns an error, and the
\* handler goes on after the failed Create.
Outage ==
    \/ \E k \in Keys, b \in Bodies, reached \in BOOLEAN : SendFails(k, b, reached)
    \/ \E m \in Members : ConsumeError(m)
    \/ \E m \in Members, p \in Partitions :
        \/ CreateFail(m, p)
        \/ MarkFailed(m, p)

Next == NextNoOutage \/ Outage

Spec == Init /\ [][Next]_vars

TypeOK ==
    /\ \A m \in Members : st[m] \in {"new", "consume", "joining", "session", "check", "done", "down"}
    /\ \A m \in Members, p \in Partitions :
        pc[m][p] \in {"none", "recv", "create", "markOk", "markErr"}

\* One process of the project-service from its start to its shutdown.
ShutdownNext ==
    \/ \E k \in Keys, b \in Bodies : Publish(k, b)
    \/ \E m \in ShutdownMembers :
        \/ Start(m)
        \/ Cancel(m)
        \/ ConsumeCancelled(m)
        \/ ConsumeJoin(m)
        \/ Release(m)
        \/ CheckCancelled(m)
        \/ AwaitClose(m)
        \/ CloseReturns(m)
        \/ ShutdownTimeout(m)
        \/ ReleaseResources(m)
    \/ \E g \in Groups : FormGeneration(g)
    \/ \E m \in ShutdownMembers, p \in Partitions :
        \/ Receive(m, p)
        \/ CreateOk(m, p)
        \/ CreateFail(m, p)
        \/ MarkSaved(m, p)
        \/ MarkFailed(m, p)
        \/ AutoCommit(m, p)

ShutdownSpec == Init /\ [][ShutdownNext]_vars

\* The requests to /api/students of the student-service.
StudentNext ==
    \/ \E body \in StudentBodies : HandlerCreateStudent(body)
    \/ \E path \in PathIDs : HandlerGetStudent(path)
    \/ \E path \in PathIDs, body \in StudentBodies : HandlerUpdateStudent(path, body)
    \/ \E path \in PathIDs : HandlerDeleteStudent(path)

StudentSpec == Init /\ [][StudentNext]_vars

(* ------------------------------ fairness ------------------------------ *)
\* With no outage every step of the program that can be taken is taken in
\* the end: Start is called, Consume and the coordinator answer, the store
\* returns from Create, a crashed process is started again.
MemberStep(m) ==
    \/ Start(m)
    \/ ConsumeCancelled(m)
    \/ ConsumeJoin(m)
    \/ Release(m)
    \/ CheckCancelled(m)
    \/ CheckLoop(m)
    \/ Restart(m)

ClaimStep(m, p) ==
    \/ Receive(m, p)
    \/ CreateOk(m, p)
    \/ MarkSaved(m, p)

Fairness ==
    /\ \A m \in Members : WF_vars(MemberStep(m))
    /\ \A g \in Groups : WF_vars(FormGeneration(g))
    /\ \A m \in Members, p \in Partitions : WF_vars(ClaimStep(m, p))

LiveSpec == Init /\ [][NextNoOutage]_vars /\ Fairness

(* ------------------- the producing edge on its own -------------------- *)
HttpNext ==
    \E req \in Requests, outcome \in Outcomes, reached \in BOOLEAN :
        PostMessages(req, outcome, reached)

HttpSpec == Init /\ [][HttpNext]_vars

(* ------------------------- reading the history ------------------------ *)
Offsets(p) == 0..(Len(log[p]) - 1)

\* The Events a client can send, and whether the message at offset o of p
\* carries one (is the encoding of an Event) or not.
Events == [Email : Keys, Message : Bodies]

Malformed(p, o) == \A e \in Events : log[p][o + 1].value # Marshal(e)

EventAt(p, o) == CHOOSE e \in Events : log[p][o + 1].value = Marshal(e)

\* Member m still holds the claim in which delivery d was made.
InSession(d) ==
    /\ st[d[1]] = "session"
    /\ sgen[d[1]] = d[2]
    /\ pc[d[1]][d[3]] # "none"

\* The Create calls made for delivery d.
CallsFor(d) == {i \in 1..Len(calls) : calls[i].d = d}

RecordsFor(d) == {i \in 1..Len(sink) : sink[i].src = d}

(* ---------------------------------------------------------------------- *)
(* C1. A message whose value does not decode as an Event gets no           *)
(* Repository.Create call and no Record; the claim marks it and moves on,  *)
(* and every valid message the claim has since finished was passed to      *)
(* Repository.Create.                                                      *)
(* ---------------------------------------------------------------------- *)
C1_MalformedSkipped ==
    \A d \in delivered :
        LET m == d[1]  p == d[3]  o == d[4] IN
        IF Malformed(p, o)
        THEN /\ CallsFor(d) = {}
             /\ RecordsFor(d) = {}
             /\ InSession(d) => (pos[m][p] > o /\ mark[m][p] > o)
        ELSE (InSession(d) /\ pos[m][p] > o) => CallsFor(d) # {}

\* A malformed message was delivered and a later message of the same
\* partition was stored by the same claim.
C1_Witness ==
    \E d \in delivered, i \in 1..Len(sink) :
        /\ Malformed(d[3], d[4])
        /\ sink[i].src[1] = d[1] /\ sink[i].src[2] = d[2]
        /\ sink[i].src[3] = d[3] /\ sink[i].src[4] > d[4]

(* ---------------------------------------------------------------------- *)
(* C2. As claimed: once Repository.Create has failed for a message, that   *)
(* message is delivered to no member again.                                *)
(* ---------------------------------------------------------------------- *)
FailedDeliveries == {calls[i].d : i \in {j \in 1..Len(calls) : ~calls[j].ok}}

Recorded(p, o) ==
    \E i \in 1..Len(sink) :
        /\ sink[i].src[3] = p /\ sink[i].src[4] = o
        /\ sink[i].Email = log[p][o + 1].key
        /\ sink[i].Message = EventAt(p, o).Message

NoFailedCreate == \A i \in 1..Len(calls) : calls[i].ok

\* A live claim on p has nothing left to read.
ConsumedToEnd(p) ==
    \E m \in Members :
        /\ Live(m)
        /\ pc[m][p] = "recv"
        /\ pos[m][p] = Len(log[p])

AllStopped == \A m \in Members : st[m] = "done"

ValidAt(p, o) == o \in Offsets(p) /\ ~Malformed(p, o)

CommittedCovers(p, o) ==
    \E g \in Groups : committed[g][p] # NoOffset /\ committed[g][p] <= o

ClaimCovers(m, p, o) ==
    /\ Live(m)
    /\ ~closing[m]
    /\ pc[m][p] # "none"
    /\ pos[m][p] <= o

SessionOver(m) == closing[m] \/ st[m] # "session"

SameKey(i, j) ==
    /\ sink[i].src[3] = sink[j].src[3]
    /\ log[sink[i].src[3]][sink[i].src[4] + 1].key
         = log[sink[j].src[3]][sink[j].src[4] + 1].key

C4_PublishOrderAlways ==
    \A i, j \in 1..Len(sink) :
        (SameKey(i, j) /\ sink[i].src[4] < sink[j].src[4]) => i < j

(* ---------------------------------------------------------------------- *)
(* C4, amended. Within one claim (one member, one generation, one          *)
(* partition) the Records are created in publish order, each offset at     *)
(* most once. Across claims no order is kept: after a redelivery, or while *)
(* a member that lost its session still empties its channel, a Record of   *)
(* an earlier Event can follow a Record of a later one with the same key.  *)
(* Records of different partitions come in any order.                      *)
(* ---------------------------------------------------------------------- *)
SameClaim(i, j) ==
    /\ sink[i].src[1] = sink[j].src[1]
    /\ sink[i].src[2] = sink[j].src[2]
    /\ sink[i].src[3] = sink[j].src[3]

C4_PublishOrderWithinClaim ==
    \A i, j \in 1..Len(sink) :
        (SameClaim(i, j) /\ i < j) => sink[i].src[4] < sink[j].src[4]

\* Two Events of one key stored by one claim, in publish order.
C4_Witness ==
    \E i, j \in 1..Len(sink) :
        /\ i < j
        /\ SameClaim(i, j)
        /\ SameKey(i, j)
        /\ sink[i].src[4] < sink[j].src[4]

(* ---------------------------------------------------------------------- *)
(* C5. As claimed: once the N valid Events of a key have all been          *)
(* processed the Sink holds exactly N Records of that key.                 *)
(* ---------------------------------------------------------------------- *)
KeyOffsets(k) ==
    {o \in Offsets(PartitionOf(k)) :
        log[PartitionOf(k)][o + 1].key = k /\ ~Malformed(PartitionOf(k), o)}

DeliveriesOf(p, o) == {d \in delivered : d[3] = p /\ d[4] = o}

\* Every Event of key k was delivered and each delivery got its Create call.
AllProcessed(k) ==
    \A o \in KeyOffsets(k) :
        /\ DeliveriesOf(PartitionOf(k), o) # {}
        /\ \A d \in DeliveriesOf(PartitionOf(k), o) : CallsFor(d) # {}

Count(k) == Cardinality({i \in 1..Len(sink) : sink[i].Email = k})

C5_ExactlyN ==
    \A k \in Keys : AllProcessed(k) => Count(k) = Cardinality(KeyOffsets(k))

(* ---------------------------------------------------------------------- *)
(* C5, amended. The Sink holds one Record of a key per Create call that    *)
(* returned nil for an Event of that key: exactly N once the N Events have *)
(* been processed, provided each was delivered once and no Create failed;  *)
(* a failed Create loses a Record, a second delivery adds one.             *)
(* ---------------------------------------------------------------------- *)
SavedCalls(k) ==
    {i \in 1..Len(calls) :
        /\ calls[i].ok
        /\ calls[i].d[3] = PartitionOf(k)
        /\ log[calls[i].d[3]][calls[i].d[4] + 1].key = k}

DeliveredOnceAndSaved(k) ==
    \A o \in KeyOffsets(k) :
        /\ Cardinality(DeliveriesOf(PartitionOf(k), o)) = 1
        /\ \A d \in DeliveriesOf(PartitionOf(k), o) :
             \E i \in CallsFor(d) : calls[i].ok

C5_OneRecordPerSavedCall ==
    \A k \in Keys :
        /\ Count(k) = Cardinality(SavedCalls(k))
        /\ DeliveredOnceAndSaved(k) => Count(k) = Cardinality(KeyOffsets(k))

\* Two Events of one key, each delivered once and saved: two Records.
C5_Witness ==
    \E k \in Keys :
        /\ Cardinality(KeyOffsets(k)) = 2
        /\ DeliveredOnceAndSaved(k)
        /\ Count(k) = 2

(* ---------------------------------------------------------------------- *)
(* C6. No deduplication: every Create call that returned nil has a Record  *)
(* of its own, and two such calls, also for Events with the same key and   *)
(* body, have two Records with different ids.                              *)
(* ---------------------------------------------------------------------- *)
Saved == {i \in 1..Len(calls) : calls[i].ok}

C6_NoDedup ==
    /\ \A a \in Saved : \E i \in 1..Len(sink) :
           /\ sink[i].src = calls[a].d
           /\ sink[i].Email = EventAt(calls[a].d[3], calls[a].d[4]).Email
           /\ sink[i].Message = EventAt(calls[a].d[3], calls[a].d[4]).Message
    /\ \A a, b \in Saved :
           a # b => \E i, j \in 1..Len(sink) :
                        /\ i # j
                        /\ sink[i].src = calls[a].d
                        /\ sink[j].src = calls[b].d
                        /\ sink[i].ID # sink[j].ID

\* The same Event was published twice, at two offsets, and has two Records.
C6_Witness ==
    \E i, j \in 1..Len(sink) :
        /\ sink[i].src[3] = sink[j].src[3]
        /\ sink[i].src[4] # sink[j].src[4]
        /\ sink[i].Email = sink[j].Email
        /\ sink[i].Message = sink[j].Message
        /\ sink[i].ID # sink[j].ID

(* ---------------------------------------------------------------------- *)
(* C7. Each delivery of a message that decodes gets exactly one            *)
(* Repository.Create call, none when the claim has not come to it yet: a   *)
(* failed Create is followed by the mark, never by a second call.          *)
(* ---------------------------------------------------------------------- *)
C7_OneCreatePerDelivery ==
    /\ \A i \in 1..Len(calls) : calls[i].d \in delivered
    /\ \A d \in delivered :
        LET m == d[1]  p == d[3]  o == d[4] IN
        /\ Cardinality(CallsFor(d)) <= 1
        /\ (~Malformed(p, o) /\ InSession(d) /\ pos[m][p] > o)
              => Cardinality(CallsFor(d)) = 1
        /\ (InSession(d) /\ pos[m][p] = o /\ pc[m][p] \in {"markOk", "markErr"})
              => Cardinality(CallsFor(d)) = 1
        /\ (InSession(d) /\ pos[m][p] = o /\ pc[m][p] = "create")
              => CallsFor(d) = {}

\* A Create failed, the message was marked and the claim went on.
C7_Witness ==
    \E d \in FailedDeliveries :
        /\ InSession(d)
        /\ pos[d[1]][d[3]] > d[4]
        /\ mark[d[1]][d[3]] > d[4]
        /\ Cardinality(CallsFor(d)) = 1

(* ---------------------------------------------------------------------- *)
(* C8. As claimed: no two members run ConsumeClaim on the same partition   *)
(* at the same time.                                                       *)
(* ---------------------------------------------------------------------- *)
C8_OneRunnerPerPartition ==
    \A p \in Partitions :
        Cardinality({m \in Members : p \in Claims(m)}) <= 1

(* ---------------------------------------------------------------------- *)
(* C8, amended. Each partition is claimed by at most one live member of    *)
(* the group (a member of its current generation). A member the group has  *)
(* dropped may still run ConsumeClaim on a partition the next generation   *)
(* gave to another member, until its own session ends.                     *)
(* ---------------------------------------------------------------------- *)
C8_OneLiveClaimPerPartition ==
    \A p \in Partitions :
        Cardinality({m \in Members : Live(m) /\ p \in Claims(m)}) <= 1

\* After a rebalance two live members share the partitions, or a live
\* member runs next to one the group has dropped.
C8_Witness ==
    \E m1, m2 \in Members, p \in Partitions :
        /\ m1 # m2
        /\ Live(m1)
        /\ p \in Claims(m1)
        /\ Claims(m2) # {}
        /\ gen[GroupID(m1)] >= 2
        /\ (Live(m2) \/ p \in Claims(m2))

(* ---------------------------------------------------------------------- *)
(* C9. The committed offset of the group on a partition never decreases,   *)
(* whatever step is taken: mark, commit, rebalance, crash, restart.        *)
(* ---------------------------------------------------------------------- *)
C9_CommittedMonotonic ==
    [][\A g \in Groups, p \in Partitions :
          committed'[g][p] >= committed[g][p]]_vars

\* A member the group dropped holds marks behind what the group has
\* committed since.
C9_Witness ==
    \E m \in Members, p \in Partitions :
        /\ p \in Claims(m)
        /\ st[m] = "session"
        /\ ~Live(m)
        /\ mark[m][p] < committed[GroupID(m)][p]
        /\ mark[m][p] # NoOffset

(* ---------------------------------------------------------------------- *)
(* C10. As claimed, the part a finite run refutes: Start does not join the *)
(* group after its context was cancelled, and returns the context's error. *)
(* ---------------------------------------------------------------------- *)
C10_NoJoinAfterCancel ==
    \A m \in Members :
        /\ lateJoin[m] = 0
        /\ (st[m] = "done" /\ ctxDone[m]) => ret[m] = "ctxErr"

(* ---------------------------------------------------------------------- *)
(* C10, amended. With a broker and a store that answer, after the context  *)
(* passed to Start is cancelled the claim loops are left and Start         *)
(* eventually returns the context's error (unless the process dies). A     *)
(* cancellation that falls between the ctx.Err() check and the next        *)
(* Consume call lets Start join the group once more, and only once.        *)
(* ---------------------------------------------------------------------- *)
C10_ReturnsAfterCancel ==
    \A m \in Members :
        /\ [](lateJoin[m] <= 1)
        /\ []((st[m] = "done" /\ ctxDone[m]) => ret[m] = "ctxErr")
        /\ ctxDone[m] ~> (st[m] \in {"done", "down"})

\* Start returned the context's error after one more join.
C10_Witness ==
    \E m \in Members :
        /\ st[m] = "done"
        /\ ctxDone[m]
        /\ ret[m] = "ctxErr"
        /\ lateJoin[m] = 1

(* ---------------------------------------------------------------------- *)
(* C11. When Consume returns an error Start has returned that error to its *)
(* caller: it is out of the loop and of the group, and has not called      *)
(* Consume again after the error.                                          *)
(* ---------------------------------------------------------------------- *)
C11_ConsumeErrorReturned ==
    \A m \in Members :
        consumeErrs[m] > 0 =>
            /\ consumeErrs[m] = 1
            /\ st[m] = "done"
            /\ ret[m] = "brokerErr"
            /\ m \notin roster[GroupID(m)]
            /\ Claims(m) = {}

\* Consume failed when Start called it again after a session.
C11_Witness ==
    \E m \in Members :
        /\ consumeErrs[m] = 1
        /\ sgen[m] > 0
        /\ ret[m] = "brokerErr"

(* --------------------- reading the answered requests ------------------ *)
\* The request answered last in the step.
Answered == Len(responses') = Len(responses) + 1
LastResponse == responses'[Len(responses')]

\* Bodies the handler must turn down: not JSON, or an empty message.
BadPayloads == {Garbage, RequestBody("")}

\* The requests with a sender and a message, and the send each one caused.
AcceptedIdx ==
    {i \in 1..Len(responses) :
        /\ responses[i].email \in Keys
        /\ \E b \in Bodies : responses[i].payload = RequestBody(b)}

SendOf(i) == Cardinality({j \in AcceptedIdx : j <= i})

MessageOf(i) == CHOOSE b \in Bodies : responses[i].payload = RequestBody(b)

(* ---------------------------------------------------------------------- *)
(* C12. A POST /messages request without a sender email is answered 401    *)
(* and causes no producer.SendMessage call: nothing reaches the broker.    *)
(* ---------------------------------------------------------------------- *)
C12_NoEmailUnauthorized ==
    [][(Answered /\ LastResponse.email = NoEmail) =>
          /\ LastResponse.code = StatusUnauthorized
          /\ sent' = sent
          /\ log' = log]_vars

\* A request with a good body and no email got 401.
C12_Witness ==
    \E i \in 1..Len(responses) :
        /\ responses[i].email = NoEmail
        /\ responses[i].payload \notin BadPayloads
        /\ responses[i].code = StatusUnauthorized

(* ---------------------------------------------------------------------- *)
(* C13. As claimed: every request with an empty message or with a body     *)
(* that is not JSON is answered 400.                                       *)
(* ---------------------------------------------------------------------- *)
C13_BadBodyAlways400 ==
    \A i \in 1..Len(responses) :
        responses[i].payload \in BadPayloads =>
            responses[i].code = StatusBadRequest

(* ---------------------------------------------------------------------- *)
(* C13, amended. A request with an empty message or with a body that is    *)
(* not JSON never causes a producer.SendMessage call, so no Event reaches  *)
(* the broker; it is answered 400 when it carries a sender email, and 401  *)
(* when it does not.                                                       *)
(* ---------------------------------------------------------------------- *)
C13_BadBodyRejected ==
    [][(Answered /\ LastResponse.payload \in BadPayloads) =>
          /\ sent' = sent
          /\ log' = log
          /\ LastResponse.email \in Keys => LastResponse.code = StatusBadRequest
          /\ LastResponse.email = NoEmail =>
                LastResponse.code = StatusUnauthorized]_vars

\* An authenticated request with an empty message and one with a body that
\* is not JSON both got 400.
C13_Witness ==
    \E i, j \in 1..Len(responses) :
        /\ responses[i].email \in Keys
        /\ responses[i].payload = Garbage
        /\ responses[i].code = StatusBadRequest
        /\ responses[j].email \in Keys
        /\ responses[j].payload = RequestBody("")
        /\ responses[j].code = StatusBadRequest

(* ---------------------------------------------------------------------- *)
(* C14. For a request with a sender and a message, what                    *)
(* producer.SendMessage returned is what Service.SendMessage returns, in   *)
(* the same step: nil gives 200, an error of the producer gives 500.       *)
(* ---------------------------------------------------------------------- *)
C14_OutcomeReturned ==
    \A i \in AcceptedIdx :
        /\ SendOf(i) <= Len(sent)
        /\ responses[i].result = sent[SendOf(i)].err
        /\ sent[SendOf(i)].err = "nil" => responses[i].code = StatusOK
        /\ sent[SendOf(i)].err # "nil" =>
              responses[i].code = StatusInternalServerError

\* One send went through and one failed.
C14_Witness ==
    \E i, j \in AcceptedIdx :
        /\ responses[i].code = StatusOK
        /\ responses[j].code = StatusInternalServerError
        /\ sent[SendOf(j)].err = "err"

(* ---------------------------------------------------------------------- *)
(* C15. Every accepted request causes exactly one producer send: its key   *)
(* is the sender's email, its Event has that Email and the request's       *)
(* message; the sends are in the order of the requests.                    *)
(* ---------------------------------------------------------------------- *)
C15_OneSendPerRequest ==
    /\ Len(sent) = Cardinality(AcceptedIdx)
    /\ \A i \in AcceptedIdx :
        /\ sent[SendOf(i)].Key = responses[i].email
        /\ sent[SendOf(i)].Value =
              Marshal([Email |-> responses[i].email, Message |-> MessageOf(i)])

\* Two accepted requests of different senders, sent in request order, with
\* a rejected request between them.
C15_Witness ==
    /\ Len(sent) = 2
    /\ Len(responses) = 3
    /\ AcceptedIdx = {1, 3}
    /\ sent[1].Key = responses[1].email
    /\ sent[2].Key = responses[3].email
    /\ sent[1].Key # sent[2].Key

(* ---------------------------------------------------------------------- *)
(* C16. What the publisher sees depends on the producer's send outcome     *)
(* alone: requests with the same outcome have the same result and status   *)
(* whatever the consumer has done, and no step of the consumer (delivery,  *)
(* Create call, Record) changes an answer already given.                   *)
(* ---------------------------------------------------------------------- *)
SameAnswerForSameOutcome ==
    \A i, j \in AcceptedIdx :
        sent[SendOf(i)].err = sent[SendOf(j)].err =>
            /\ responses[i].result = responses[j].result
            /\ responses[i].code = responses[j].code

C16_PublisherSeesOnlySend ==
    [][/\ SameAnswerForSameOutcome'
       /\ (delivered' # delivered \/ calls' # calls \/ sink' # sink) =>
             responses' = responses]_vars

\* A published Event failed at the consumer and its publisher had got 200;
\* another publisher got 200 with nothing failed yet.
C16_Witness ==
    /\ \E d \in FailedDeliveries :
          \E i \in AcceptedIdx :
              /\ responses[i].code = StatusOK
              /\ PartitionOf(responses[i].email) = d[3]
              /\ Cardinality({j \in AcceptedIdx : j <= i /\
                     PartitionOf(responses[j].email) = d[3]}) = d[4] + 1
    /\ Cardinality(AcceptedIdx) = 2

(* ---------------------------------------------------------------------- *)
(* C17. As claimed, in the form a finite run refutes: a message marked but *)
(* not committed when its member died is delivered again, so a claim of a  *)
(* later generation on its partition has it still ahead or has got it.     *)
(* ---------------------------------------------------------------------- *)
Redelivered(l) ==
    \E d \in delivered : d[3] = l.p /\ d[4] = l.o /\ d[2] > l.g

C17_AlwaysRedelivered ==
    \A l \in lost : \A m \in Members :
        (Live(m) /\ l.p \in Claims(m) /\ sgen[m] > l.g) =>
            (pos[m][l.p] <= l.o \/ Redelivered(l))

(* ---------------------------------------------------------------------- *)
(* C17, amended. If a consumer dies after it marked a message and before   *)
(* that mark was committed, and the group has a committed offset on the    *)
(* partition, then with a broker and a store that answer the message is    *)
(* delivered again, to the member that is given the partition next, and    *)
(* processed a second time: a second Record for the Event can be written.  *)
(* With no committed offset on the partition the next claim starts at the  *)
(* newest offset and the message is not delivered again.                   *)
(* ---------------------------------------------------------------------- *)
LostAt(p, o) == {l \in lost : l.p = p /\ l.o = o /\ l.base # NoOffset}

C17_RedeliveredWhenCommitted ==
    \A p \in Partitions, o \in 0..(MaxPublish - 1) :
        (LostAt(p, o) # {}) ~> (\A l \in LostAt(p, o) : Redelivered(l))

\* The Event has two Records: one of the member that died, one of the
\* delivery after it.
C17_Witness ==
    \E l \in lost : \E i, j \in 1..Len(sink) :
        /\ l.base # NoOffset
        /\ sink[i].src[3] = l.p /\ sink[i].src[4] = l.o /\ sink[i].src[2] = l.g
        /\ sink[j].src[3] = l.p /\ sink[j].src[4] = l.o /\ sink[j].src[2] > l.g

FromDecodedDelivery(rec) ==
    /\ rec.src \in delivered
    /\ ~Malformed(rec.src[3], rec.src[4])
    /\ rec.Email = EventAt(rec.src[3], rec.src[4]).Email
    /\ rec.Message = EventAt(rec.src[3], rec.src[4]).Message

C19_RecordsOnlyCreated ==
    [][/\ Len(sink') >= Len(sink)
       /\ \A i \in 1..Len(sink) : sink'[i] = sink[i]
       /\ \A i \in 1..Len(sink') : FromDecodedDelivery(sink[i])']_vars

\* Two Records are there and a malformed message was delivered and passed.
C19_Witness ==
    /\ Len(sink) >= 2
    /\ \E d \in delivered :
          /\ Malformed(d[3], d[4])
          /\ InSession(d)
          /\ pos[d[1]][d[3]] > d[4]

CallsOnReleased == {i \in 1..Len(calls) : calls[i].released}

Decimal(id) == <<DigitChars[id + 1]>>

\* The path names an integer.
IntegerPaths == {<<"-", "1">>} \cup {Decimal(id) : id \in 0..9}
PositivePaths == {Decimal(id) : id \in 1..9}

\* No stored student has the id the path names.
Missing(rows, path) == \A id \in DOMAIN rows : path # Decimal(id)

\* The body is a student that the README's validation rules accept.
WellFormedEmails == {<<"a", "@", "x", ".", "c", "o">>, <<"b", "@", "x", ".", "c", "o">>}
WellFormed(body) ==
    /\ body # Garbage
    /\ body[2] # ""
    /\ body[3] # ""
    /\ body[4] \in WellFormedEmails
    /\ body[5] >= 0 /\ body[5] <= 10

\* This step answers a request.
StudentAnswered == reply'.n = reply.n + 1

(* ---------------------------------------------------------------------- *)
(* C22. An update or a delete whose path names an integer id that is not  *)
(* in the store leaves the stored students unchanged (an update never      *)
(* creates the student). It is answered 404 when the id is positive and,   *)
(* for an update, the body is a valid student; an update with an invalid   *)
(* body or an id <= 0 is answered 400, a delete with an id <= 0 500.       *)
(* ---------------------------------------------------------------------- *)
C22_MissingLeavesStore ==
    [][(/\ StudentAnswered
        /\ reply'.op \in {"update", "delete"}
        /\ reply'.path \in IntegerPaths
        /\ Missing(students, reply'.path))
       => /\ students' = students
          /\ reply'.code = StatusNotFound
                <=> /\ reply'.path \in PositivePaths
                    /\ reply'.op = "update" => WellFormed(reply'.body)
          /\ reply'.code # StatusNotFound =>
                reply'.code = IF reply'.op = "update" THEN StatusBadRequest
                              ELSE StatusInternalServerError]_vars

\* A valid update of a positive id that some student has, but not this one,
\* was answered 404 and the store is what it was.
C22_Witness ==
    /\ reply.op = "update"
    /\ reply.path \in PositivePaths
    /\ WellFormed(reply.body)
    /\ Missing(students, reply.path)
    /\ DOMAIN students # {}
    /\ reply.code = StatusNotFound

\* C22 as stated: every update or delete of an id that is not in the store
\* is answered 404.
C22_MissingAlways404 ==
    [][(/\ StudentAnswered
        /\ reply'.op \in {"update", "delete"}
        /\ reply'.path \in IntegerPaths
        /\ Missing(students, reply'.path))
       => students' = students /\ reply'.code = StatusNotFound]_vars

C28_ValidatedBeforeRepository ==
    [][(/\ StudentAnswered
        /\ reply'.op \in {"create", "update"}
        /\ reply'.svc)
       => /\ reply'.called => WellFormed(reply'.body)
          /\ ~WellFormed(reply'.body) =>
                /\ reply'.err \in {"ErrInvalidInput", "ErrInvalidEmail"}
                /\ ~reply'.called
                /\ students' = students
                /\ nextID' = nextID]_vars

\* An update of a stored student with a year out of range was refused.
C28_Witness ==
    /\ reply.op = "update"
    /\ reply.svc
    /\ ~Missing(students, reply.path)
    /\ reply.body[5] = 11
    /\ reply.err = "ErrInvalidInput"
    /\ ~reply.called

(* ---------------------------------------------------------------------- *)
(* C29. For an id <= 0 GetStudentByID, UpdateStudent and DeleteStudent     *)
(* return ErrInvalidInput without calling the repository, and the handler  *)
(* answers every ErrInvalidInput with 400.                                 *)
(* ---------------------------------------------------------------------- *)
C29_InvalidInputIs400 ==
    /\ (reply.svc /\ reply.path \in IntegerPaths \ PositivePaths)
       => reply.err = "ErrInvalidInput" /\ ~reply.called
    /\ (reply.svc /\ reply.err = "ErrInvalidInput")
       => reply.code = StatusBadRequest

(* ---------------------------------------------------------------------- *)
(* C24. Within a claim a message is marked exactly when the claim moves on *)
(* from it, once: the mark is the offset after the message, it is set only *)
(* after the message was received and decoded and, when it decoded, after  *)
(* Repository.Create has returned for it, and only when every earlier      *)
(* message of the claim is marked.                                         *)
(* ---------------------------------------------------------------------- *)
\* The claim of m on p is the same before and after the step.
SameSession(m, p) ==
    /\ st[m] = "session" /\ st'[m] = "session"
    /\ sgen'[m] = sgen[m]
    /\ pc[m][p] # "none"

\* The claim has received no message before the one it is at.
FirstOfClaim(m, p) ==
    \A d \in delivered :
        ~(d[1] = m /\ d[2] = sgen[m] /\ d[3] = p /\ d[4] < pos[m][p])

C24_MarkedOnceAfterProcessing ==
    [][\A m \in Members, p \in Partitions :
        SameSession(m, p) =>
            /\ mark'[m][p] # mark[m][p] =>
                /\ mark[m][p] = pos[m][p] \/ FirstOfClaim(m, p)
                /\ mark[m][p] <= pos[m][p]
                /\ mark'[m][p] = pos[m][p] + 1
                /\ pos'[m][p] = pos[m][p] + 1
                /\ Delivery(m, p) \in delivered'
                /\ IF Malformed(p, pos[m][p])
                   THEN CallsFor(Delivery(m, p)) = {}
                   ELSE Cardinality(CallsFor(Delivery(m, p))) = 1
            /\ pos'[m][p] # pos[m][p] =>
                /\ mark'[m][p] # mark[m][p]
                /\ mark'[m][p] = pos'[m][p]]_vars

\* One claim has marked a malformed message and then the message after it,
\* for which Create had returned.
C24_Witness ==
    \E d \in delivered, e \in delivered :
        /\ d[1] = e[1] /\ d[2] = e[2] /\ d[3] = e[3] /\ e[4] = d[4] + 1
        /\ InSession(e)
        /\ Malformed(d[3], d[4])
        /\ CallsFor(e) # {}
        /\ mark[e[1]][e[3]] = e[4] + 1

(* ---------------------------------------------------------------------- *)
(* C25. When a session has ended and the context is not cancelled, the     *)
(* next step of Start is another Consume call for the same group, and the  *)
(* member joins again; Start has returned only with the error of Consume   *)
(* or with the error of a cancelled context.                               *)
(* ---------------------------------------------------------------------- *)
C25_ConsumeAgainAfterRebalance ==
    [][\A m \in Members :
        /\ (st[m] = "check" /\ st'[m] \notin {"check", "down"}) =>
              IF ctxDone[m]
              THEN st'[m] = "done" /\ ret'[m] = "ctxErr"
              ELSE st'[m] = "consume" /\ ret'[m] = "none"
        /\ st'[m] = "done" =>
              \/ ret'[m] = "ctxErr" /\ ctxDone'[m]
              \/ ret'[m] = "brokerErr" /\ consumeErrs'[m] > 0
        /\ (st[m] = "consume" /\ st'[m] = "joining") =>
              m \in Joining(GroupID(m))']_vars

\* No fault at all: a member that handled a message in one generation holds
\* a session of a later one.
C25_Witness ==
    /\ faults = 0
    /\ \E m \in Members, d \in delivered :
        /\ d[1] = m
        /\ d[2] < sgen[m]
        /\ Live(m)

(* ---------------------------------------------------------------------- *)
(* C26. A cancellation does not interrupt a message: while ConsumeClaim is *)
(* inside Repository.Create the only step of the claim is the return of    *)
(* that call, cancelled context or not, and the step after the return      *)
(* marks the message.                                                      *)
(* ---------------------------------------------------------------------- *)
C26_CreateRunsToCompletion ==
    [][\A m \in Members, p \in Partitions :
        st'[m] # "down" =>
            /\ pc[m][p] = "create" =>
                \/ /\ pc'[m][p] = "create"
                   /\ pos'[m][p] = pos[m][p]
                   /\ CallsFor(Delivery(m, p))' = {}
                \/ /\ pc'[m][p] \in {"markOk", "markErr"}
                   /\ pos'[m][p] = pos[m][p]
                   /\ calls' = Append(calls, calls'[Len(calls')])
                   /\ calls'[Len(calls')].d = Delivery(m, p)
            /\ (pc[m][p] \in {"markOk", "markErr"} /\ pc'[m][p] # pc[m][p]) =>
                /\ pc'[m][p] = "recv"
                /\ mark'[m][p] = pos[m][p] + 1]_vars

\* A Create call returned under a cancelled context and its message is
\* marked.
C26_Witness ==
    \E i \in 1..Len(calls) :
        LET d == calls[i].d IN
        /\ calls[i].cancelled
        /\ ctxDone[d[1]]
        /\ sgen[d[1]] = d[2]
        /\ mark[d[1]][d[3]] = d[4] + 1

(* ---------------------------------------------------------------------- *)
(* C27. Neither a decode error nor an error of Repository.Create leaves    *)
(* the handler: after either the claim is at the next message and its      *)
(* session goes on, and Start has only ever returned the error of Consume  *)
(* or of its context.                                                      *)
(* ---------------------------------------------------------------------- *)
C27_ErrorsStayInHandler ==
    [][/\ \A d \in delivered' \ delivered :
            Malformed(d[3], d[4]) =>
                /\ st'[d[1]] = "session"
                /\ ret'[d[1]] = ret[d[1]]
                /\ pc'[d[1]][d[3]] = "recv"
                /\ pos'[d[1]][d[3]] = d[4] + 1
       /\ \A m \in Members, p \in Partitions :
            /\ (pc[m][p] = "create" /\ pc'[m][p] = "markErr") =>
                st'[m] = "session" /\ ret'[m] = ret[m]
            /\ (pc[m][p] = "markErr" /\ pc'[m][p] # "markErr" /\ st'[m] # "down") =>
                /\ st'[m] = "session"
                /\ ret'[m] = ret[m]
                /\ pc'[m][p] = "recv"
                /\ pos'[m][p] = pos[m][p] + 1
       /\ \A m \in Members : ret'[m] \in {"none", "ctxErr", "brokerErr"}]_vars

\* After a failed Create the same claim received the next message of the
\* partition, and Start has not returned.
C27_Witness ==
    \E d \in FailedDeliveries, e \in delivered :
        /\ e[1] = d[1] /\ e[2] = d[2] /\ e[3] = d[3] /\ e[4] = d[4] + 1
        /\ st[d[1]] = "session"
        /\ ret[d[1]] = "none"

(* ---------------------------------------------------------------------- *)
(* C30. When a generation is formed and the group has no committed offset  *)
(* on a partition, the messages that are in the partition at that moment   *)
(* are not delivered to the members of that generation or of a later one,  *)
(* and no Record is made from them in those generations.                   *)
(* ---------------------------------------------------------------------- *)
C30_StartsAtNewest ==
    \A f \in formed :
        f[4] = NoOffset =>
            /\ \A d \in delivered :
                (GroupID(d[1]) = f[1] /\ d[2] >= f[2] /\ d[3] = f[3]) => d[4] >= f[5]
            /\ \A i \in 1..Len(sink) :
                (GroupID(sink[i].src[1]) = f[1] /\ sink[i].src[2] >= f[2]
                    /\ sink[i].src[3] = f[3]) => sink[i].src[4] >= f[5]

\* A message was in the partition when the first generation was formed; it
\* has no Record, and the message published after it has one.
C30_Witness ==
    \E f \in formed :
        /\ f[2] = 1
        /\ f[4] = NoOffset
        /\ f[5] > 0
        /\ \E i \in 1..Len(sink) : sink[i].src[3] = f[3] /\ sink[i].src[4] = f[5]
        /\ \A i \in 1..Len(sink) : sink[i].src[3] = f[3] => sink[i].src[4] >= f[5]

=============================================================================
